---- MODULE Spec2Model ----
(***************************************************************************)
(* Snakes & Ladders Showdown: the turn engine of the React App component   *)
(* (Board.js, lines 263-589) and the commentary entry points of Chat.js.   *)
(*                                                                         *)
(* React state is modelled as the committed value of each useState cell.   *)
(* Every handler, timer callback and promise continuation is one action;   *)
(* the setState calls of one callback are applied together (React 18       *)
(* batches them) and the useEffect of lines 427-435 runs as the tail of    *)
(* the action that committed the render.  A callback created in a render   *)
(* reads the values of THAT render: the closure is carried in the timer.   *)
(* There is no clock: pending timers run in any order their delays allow.  *)
(***************************************************************************)
EXTENDS Integers, Sequences, FiniteSets, TLC

\* ---------------------------------------------------------------- bounds
\* Number of dice rolls, after the opening, explored in one behaviour.
MaxRolls == 3
\* Total number of resetGame calls explored in one behaviour.
MaxResets == 1
\* Rolls explored from each drawn pair of positions.
MaxProbeRolls == 2
\* Largest player list handed to the Board on its own.
\* Commentary requests left unanswered while the endgame goes on.
MaxPending == 1

MaxTokens == 4

\* ------------------------------------------------------ program constants
BOARD_SIZE == 10
END_CELL == 100
DiceFaces == 6

SNAKES_TailOnLadderBase ==
  << [head |-> 99, tail |-> 8],  [head |-> 92, tail |-> 35],
     [head |-> 89, tail |-> 53], [head |-> 74, tail |-> 17],
     [head |-> 64, tail |-> 24], [head |-> 62, tail |-> 19],
     [head |-> 49, tail |-> 11], [head |-> 46, tail |-> 5],
     [head |-> 16, tail |-> 6] >>

SNAKES ==
  << [head |-> 99, tail |-> 7],  [head |-> 92, tail |-> 35],
     [head |-> 89, tail |-> 53], [head |-> 74, tail |-> 17],
     [head |-> 64, tail |-> 24], [head |-> 62, tail |-> 19],
     [head |-> 49, tail |-> 11], [head |-> 46, tail |-> 5],
     [head |-> 16, tail |-> 6] >>

LADDERS_TopOnSnakeHead ==
  << [base |-> 2, top |-> 16],  [base |-> 8, top |-> 34],
     [base |-> 20, top |-> 77], [base |-> 32, top |-> 68],
     [base |-> 41, top |-> 79], [base |-> 71, top |-> 91],
     [base |-> 80, top |-> 100], [base |-> 84, top |-> 98] >>

LADDERS ==
  << [base |-> 2,  top |-> 23], [base |-> 8,  top |-> 34],
     [base |-> 20, top |-> 77], [base |-> 32, top |-> 68],
     [base |-> 41, top |-> 79], [base |-> 71, top |-> 91],
     [base |-> 80, top |-> 100], [base |-> 84, top |-> 98] >>

\* for (let s of SNAKES) if (s.head === pos) return s.tail;
\* for (let l of LADDERS) if (l.base === pos) return l.top;  return pos;
resolveSnakesOnly(pos) ==
  IF \E i \in DOMAIN SNAKES : SNAKES[i].head = pos
    THEN SNAKES[CHOOSE i \in DOMAIN SNAKES : SNAKES[i].head = pos].tail
    ELSE pos

resolveSnakesAndLadders(pos) ==
  IF \E i \in DOMAIN SNAKES : SNAKES[i].head = pos
  THEN LET i == CHOOSE k \in DOMAIN SNAKES :
                  /\ SNAKES[k].head = pos
                  /\ \A j \in 1..(k-1) : SNAKES[j].head # pos
       IN SNAKES[i].tail
  ELSE IF \E i \in DOMAIN LADDERS : LADDERS[i].base = pos
  THEN LET i == CHOOSE k \in DOMAIN LADDERS :
                  /\ LADDERS[k].base = pos
                  /\ \A j \in 1..(k-1) : LADDERS[j].base # pos
       IN LADDERS[i].top
  ELSE pos

\* Math.floor(Math.random() * 6) + 1
rollDice == 1..DiceFaces

\* The values the first rolls of a behaviour yield: none fixed, or a line
\* of play that brings both players near END_CELL, the user (rolls 1, 3,
\* 5, 7) through 1, 2 -> 23, 26, 32 -> 68, 71 -> 91 and the AI (rolls 2, 4,
\* 6, 8) through 1, 7, 8 -> 34, 40, 41 -> 79.
Openings ==
  { << >>,
    <<1, 6, 3, 1, 6, 6, 3, 1>> }

\* ------------------------------------------------------------------ state
VARIABLES
  players,      \* App: players[i].position, i = 0 (You, isUser), 1 (AI)
  turn,         \* App: 0 user, 1 AI
  gameOver,     \* App
  diceValue,    \* App: 0 stands for null
  message,      \* App: winner message
  processing,   \* App: the busy flag
  board,        \* Board: the player tokens it rendered from its players prop
  messages,     \* Chat: transcript (welcome-only flag and last message)
  error,        \* Chat: visible error line ("" stands for null)
  openaiApiKey, \* Chat: whether REACT_APP_OPENAI_API_KEY is set
  timers,       \* pending setTimeout callbacks, each with its closure
  fetches,      \* commentary requests in flight
  lastOp,       \* history: the step just taken
  mover,        \* history: index of the player of the last resolved move of the session
  movedFrom,    \* history: the position the last resolved move started from
  resetIn,      \* history: the orchestrator state the last resetGame was called in
  humanMoved,   \* history: a Play Turn request was accepted since the last reset
  rolls,        \* history: dice rolled so far
  opening,      \* the values of the first rolls (chosen from Openings)
  resets        \* history: resetGame calls so far

app == <<players, turn, gameOver, diceValue, message, processing, board>>
chat == <<messages, error>>
vars == <<players, turn, gameOver, diceValue, message, processing, board,
          messages, error, openaiApiKey, timers, fetches,
          lastOp, mover, movedFrom, resetIn, humanMoved, rolls, opening, resets>>

\* ------------------------------------------------------- the Board component
\* squareToGridPos(n): <<row, col>>, 0-based, boustrophedon order.
squareToGridPosOffByOne(n) ==
  LET row == BOARD_SIZE - 1 - (n \div BOARD_SIZE)
      col == (n - 1) % BOARD_SIZE
  IN  IF (BOARD_SIZE - 1 - row) % 2 = 1
        THEN <<row, BOARD_SIZE - 1 - col>>
        ELSE <<row, col>>

squareToGridPos(n) ==
  LET row == BOARD_SIZE - 1 - ((n - 1) \div BOARD_SIZE)
      col == (n - 1) % BOARD_SIZE
  IN  IF (BOARD_SIZE - 1 - row) % 2 = 1
        THEN <<row, BOARD_SIZE - 1 - col>>
        ELSE <<row, col>>

\* The copy of squareToGridPos in the token board (part_000 22-29).
squareToGridPosTokens(n) ==
  LET row == BOARD_SIZE - 1 - ((n - 1) \div BOARD_SIZE)
      col == (n - 1) % BOARD_SIZE
  IN  IF (BOARD_SIZE - 1 - row) % 2 = 1
        THEN <<row, BOARD_SIZE - 1 - col>>
        ELSE <<row, col>>

\* The renderer's own tables (Board.js 9-30), colours left out.
BoardSNAKES_Drifted ==
  << [head |-> 99, tail |-> 7],  [head |-> 92, tail |-> 35],
     [head |-> 89, tail |-> 53], [head |-> 74, tail |-> 17],
     [head |-> 64, tail |-> 24], [head |-> 62, tail |-> 19],
     [head |-> 49, tail |-> 11], [head |-> 46, tail |-> 5],
     [head |-> 17, tail |-> 6] >>

BoardSNAKES ==
  << [head |-> 99, tail |-> 7],  [head |-> 92, tail |-> 35],
     [head |-> 89, tail |-> 53], [head |-> 74, tail |-> 17],
     [head |-> 64, tail |-> 24], [head |-> 62, tail |-> 19],
     [head |-> 49, tail |-> 11], [head |-> 46, tail |-> 5],
     [head |-> 16, tail |-> 6] >>

BoardLADDERS ==
  << [base |-> 2, top |-> 23],  [base |-> 8, top |-> 34],
     [base |-> 20, top |-> 77], [base |-> 32, top |-> 68],
     [base |-> 41, top |-> 79], [base |-> 71, top |-> 91],
     [base |-> 80, top |-> 100], [base |-> 84, top |-> 98] >>

\* The number shown in the idx-th cell of the grid (Board.js 160-166); the
\* CSS grid lays the cells out row by row from the top, left to right.
cellNum(idx) ==
  LET row == idx \div BOARD_SIZE
      col == idx % BOARD_SIZE
  IN  IF row % 2 = 0
        THEN 100 - (row * BOARD_SIZE) - (BOARD_SIZE - 1 - col)
        ELSE 100 - (row * BOARD_SIZE) - col

CellLabel(row, col) == cellNum(row * BOARD_SIZE + col)

\* The players prop is a list indexed from 0; position 0 stands for a
\* player without a position (skipped by "if (!p.position) return").
HasPosition(ps, i) == ps[i] # 0

\* tokenMap[pos]: the players on pos, in the order forEach pushed them.
tokenList(ps, pos) == {i \in DOMAIN ps : HasPosition(ps, i) /\ ps[i] = pos}

\* idx of player i in tokenMap[ps[i]].
tokenIdx(ps, i) == Cardinality({j \in tokenList(ps, ps[i]) : j < i})

\* overlayAdjust = 3 * (tokenIdx - (totalHere - 1) / 2) px, kept doubled so
\* that the half pixels of an even totalHere stay integers.
TokenSpacing == 3

overlayAdjust2Crowded(idx, totalHere) == TokenSpacing * (2 * idx - totalHere)

overlayAdjust2(idx, totalHere) == TokenSpacing * (2 * idx - (totalHere - 1))

PlayerToken(ps, i) ==
  LET totalHere == Cardinality(tokenList(ps, ps[i]))
      cell == squareToGridPosTokens(ps[i])
  IN  [player |-> i, square |-> ps[i], row |-> cell[1], col |-> cell[2],
       tokenIdx |-> tokenIdx(ps, i), totalHere |-> totalHere,
       overlayAdjust2 |-> overlayAdjust2(tokenIdx(ps, i), totalHere)]

\* Object.entries(tokenMap).flatMap(...): squares in ascending order, the
\* players of a square in tokenMap order.
RenderRank(ps, i) ==
  1 + Cardinality({j \in DOMAIN ps :
        /\ HasPosition(ps, j)
        /\ \/ ps[j] < ps[i]
           \/ ps[j] = ps[i] /\ j < i})

Board(ps) ==
  LET placed == {i \in DOMAIN ps : HasPosition(ps, i)}
  IN  [k \in 1..Cardinality(placed) |->
         PlayerToken(ps, CHOOSE i \in placed : RenderRank(ps, i) = k)]

\* useState initial values (Board.js 318-329) and resetGame's values.
InitialPlayers == [i \in 0..1 |-> 1]

\* Chat.js 11-16 and resetToWelcome: one assistant message, the welcome.
\* The transcript is kept as whether it holds the welcome alone, and its
\* last message (role, text and the system prompt it was sent with).
WelcomeMessages ==
  [only |-> TRUE, role |-> "assistant", text |-> "welcome", tone |-> "none"]

\* The values a callback created in the current render closes over.
Render == [players |-> players, turn |-> turn,
           gameOver |-> gameOver, processing |-> processing]

NoPlayers == [i \in 0..1 |-> 0]

\* A pending setTimeout callback with the closure values it reads.
\*   "auto"      () => handlePlayTurn()       reads the whole render
\*   "overshoot" lines 372-375                reads turn
\*   "narrate"   lines 402-423                reads nowPlayer, dice, newPos, finalPos
\*   "win"       lines 394-396                reads nowPlayer, dice, finalPos
Timer(kind, cl, from, dice, target, final) ==
  [kind |-> kind,
   players |-> IF kind = "auto" THEN cl.players ELSE NoPlayers,
   turn |-> cl.turn,
   gameOver |-> IF kind = "auto" THEN cl.gameOver ELSE FALSE,
   processing |-> IF kind = "auto" THEN cl.processing ELSE FALSE,
   from |-> from, dice |-> dice, target |-> target, final |-> final]

\* ---------------------------------------------------------------- Chat.js
\* aiEmoteTaunt: the event text (moveDesc) chosen from the arguments.
moveDescSwapped(isUser, from, to, isWin, isSnake, isLadder) ==
  IF isWin THEN (IF ~isUser THEN "AI won the game!" ELSE "Player won the game!")
  ELSE IF isSnake THEN "climbed a ladder"
  ELSE IF isLadder THEN "went down a snake"
  ELSE IF from = to THEN "could not move"
  ELSE "moved"

moveDesc(isUser, from, to, isWin, isSnake, isLadder) ==
  IF isWin THEN (IF ~isUser THEN "AI won the game!" ELSE "Player won the game!")
  ELSE IF isSnake THEN "went down a snake"
  ELSE IF isLadder THEN "climbed a ladder"
  ELSE IF from = to THEN "could not move"
  ELSE "moved"

\* aiEmoteTaunt: the system prompt chosen from player.isUser.
systemPromptFor(isUser) == IF ~isUser THEN "gloat" ELSE "taunt"

\* aiAddMessage, Chat.js 74: [...msgs, { role: "user", content: userMessage }]
AddUserMessage(msgs, desc, tone) ==
  [only |-> FALSE, role |-> "user", text |-> desc, tone |-> tone]

\* aiAddMessage, Chat.js 102: [...msgs, { role: "assistant", content: resp }]
AddAssistantMessage(msgs) ==
  [only |-> FALSE, role |-> "assistant", text |-> "reply", tone |-> "none"]

KeyMissingErrorSilent == ""

KeyMissingError == "OPENAI_API_KEY missing"
ResponseError == "OpenAI response error"

\* ---------------------------------------------------------------- App
\* The orchestrator state the flags stand for.
Phase ==
  IF gameOver THEN "GameOver"
  ELSE IF processing THEN "ResolvingMove"
  ELSE IF turn = 1 THEN "AutomatedTurnPending"
  ELSE "AwaitingHumanMove"

App == [players |-> players, turn |-> turn, gameOver |-> gameOver,
        diceValue |-> diceValue, message |-> message, processing |-> processing]

Commit(a) ==
  /\ players' = a.players
  /\ turn' = a.turn
  /\ gameOver' = a.gameOver
  /\ diceValue' = a.diceValue
  /\ message' = a.message
  /\ processing' = a.processing
  /\ board' = Board(a.players)

\* if (processing || gameOver) return;   (the values of the closure's render)
BusyGuardNoBusy(cl) == cl.gameOver

BusyGuard(cl) == cl.processing \/ cl.gameOver

\* if (newPos > END_CELL)
OvershootsOffByOne(newPos) == newPos > END_CELL + 1

Overshoots(newPos) == newPos > END_CELL

\* let won = finalPos === END_CELL;
WonOffByOne(finalPos) == finalPos > END_CELL

Won(finalPos) == finalPos = END_CELL

\* `${nowPlayer.isUser ? "You" : "AI"} win${nowPlayer.isUser ? "!" : "s!"}`
WinnerMessageSwapped(isUser) == IF isUser THEN "AI wins!" ELSE "You win!"

WinnerMessage(isUser) == IF isUser THEN "You win!" ELSE "AI wins!"

\* players.map((p, idx) => idx === turn ? { ...p, position: finalPos } : p)
MovePlayerBoth(ps, idx, finalPos) == [i \in DOMAIN ps |-> finalPos]

MovePlayerOther(ps, idx, finalPos) == [ps EXCEPT ![1 - idx] = finalPos]

MovePlayer(ps, idx, finalPos) == [ps EXCEPT ![idx] = finalPos]

\* setTurn(turn === 0 ? 1 : 0) and setTurn((prev) => (prev === 0 ? 1 : 0))
FlipStuck(t) == t

Flip(t) == IF t = 0 THEN 1 ELSE 0

\* The synchronous part of handlePlayTurn run in closure cl against the
\* committed state a, with the rolled value dice: the state it commits,
\* the timer it schedules and the branch taken.
handlePlayTurnEagerFlip(cl, a, dice) ==
  LET from == cl.players[cl.turn]
      newPos == from + dice
      finalPos == resolveSnakesAndLadders(newPos)
  IN IF BusyGuard(cl)
     THEN [branch |-> "ignored", app |-> a, timer |-> {}]
     ELSE IF Overshoots(newPos)
     THEN [branch |-> "overshoot",
           app |-> [a EXCEPT !.processing = TRUE, !.diceValue = dice],
           timer |-> {Timer("overshoot", cl, from, dice, newPos, from)}]
     ELSE IF Won(finalPos)
     THEN [branch |-> "win",
           app |-> [a EXCEPT !.diceValue = dice,
                             !.players = MovePlayer(cl.players, cl.turn, finalPos),
                             !.gameOver = TRUE,
                             !.message = WinnerMessage(cl.turn = 0),
                             !.processing = FALSE],
           timer |-> {Timer("win", cl, from, dice, newPos, finalPos)}]
     ELSE [branch |-> "move",
           app |-> [a EXCEPT !.processing = TRUE, !.diceValue = dice,
                             !.turn = Flip(cl.turn),
                             !.players = MovePlayer(cl.players, cl.turn, finalPos)],
           timer |-> {Timer("narrate", cl, from, dice, newPos, finalPos)}]

handlePlayTurn(cl, a, dice) ==
  LET from == cl.players[cl.turn]
      newPos == from + dice
      finalPos == resolveSnakesAndLadders(newPos)
  IN IF BusyGuard(cl)
     THEN [branch |-> "ignored", app |-> a, timer |-> {}]
     ELSE IF Overshoots(newPos)
     THEN [branch |-> "overshoot",
           app |-> [a EXCEPT !.processing = TRUE, !.diceValue = dice],
           timer |-> {Timer("overshoot", cl, from, dice, newPos, from)}]
     ELSE IF Won(finalPos)
     THEN [branch |-> "win",
           app |-> [a EXCEPT !.diceValue = dice,
                             !.players = MovePlayer(cl.players, cl.turn, finalPos),
                             !.gameOver = TRUE,
                             !.message = WinnerMessage(cl.turn = 0),
                             !.processing = FALSE],
           timer |-> {Timer("win", cl, from, dice, newPos, finalPos)}]
     ELSE [branch |-> "move",
           app |-> [a EXCEPT !.processing = TRUE, !.diceValue = dice,
                             !.players = MovePlayer(cl.players, cl.turn, finalPos)],
           timer |-> {Timer("narrate", cl, from, dice, newPos, finalPos)}]

\* useEffect(..., [turn, gameOver, processing]) after the render that
\* commits b, the previous render having committed a.
DepsChanged(a, b) ==
  a.turn # b.turn \/ a.gameOver # b.gameOver \/ a.processing # b.processing

AutoCondition(b) == b.turn = 1 /\ ~b.gameOver /\ ~b.processing

useEffectAuto(a, b) ==
  IF DepsChanged(a, b) /\ AutoCondition(b)
  THEN {Timer("auto", b, 0, 0, 0, 0)}
  ELSE {}

\* setTimeout(callback, delay): the delays of lines 396, 423, 432 and 375.
WinDelay == 650
NarrateDelay == 1100
AutoDelay == 1200
OvershootDelay == 1300

Delay(kind) ==
  CASE kind = "win" -> WinDelay
    [] kind = "narrate" -> NarrateDelay
    [] kind = "auto" -> AutoDelay
    [] kind = "overshoot" -> OvershootDelay

\* timers is the list of pending callbacks in the order they were scheduled.
\* A callback scheduled earlier with a delay no longer than another's is due
\* no later, so it runs first; otherwise either may run first.
Due(i) == \A j \in 1..(i - 1) : Delay(timers[j].kind) > Delay(timers[i].kind)

\* ts holds at most one timer.
AddTimers(seq, ts) == IF ts = {} THEN seq ELSE Append(seq, CHOOSE t \in ts : TRUE)

\* The list without its entries at the positions in is.
DropTimers(seq, is) ==
  LET keep == {i \in DOMAIN seq : i \notin is}
      rank(i) == Cardinality({j \in keep : j <= i})
  IN [k \in 1..Cardinality(keep) |-> seq[CHOOSE i \in keep : rank(i) = k]]
DropTimer(seq, i) == DropTimers(seq, {i})

\* aiEmoteTaunt called with a taunt: the transcript, the error line and the
\* request started (none when the key is missing: the throw is caught).
TauntChat(isUser, from, to, isWin, isSnake, isLadder) ==
  /\ messages' = AddUserMessage(messages,
                    moveDesc(isUser, from, to, isWin, isSnake, isLadder),
                    systemPromptFor(isUser))
  /\ error' = IF openaiApiKey THEN "" ELSE KeyMissingError

\* The values the next call of rollDice may return in this behaviour.
NextDice == IF rolls < Len(opening) THEN {opening[rolls + 1]} ELSE rollDice

\* The move shared by the Play Turn button and the automated timer.
PlayTurn(cl, dice, fired) ==
  \E r \in {handlePlayTurn(cl, App, dice)} :
  /\ r.branch # "ignored" => rolls < Len(opening) + MaxRolls
  /\ Commit(r.app)
  /\ timers' = AddTimers(AddTimers(DropTimers(timers, fired), r.timer),
                         useEffectAuto(App, r.app))
  /\ IF r.branch = "overshoot"
     THEN /\ TauntChat(cl.turn = 0, cl.players[cl.turn], cl.players[cl.turn],
                       FALSE, FALSE, FALSE)
          /\ fetches' = IF openaiApiKey
                        THEN [fetches EXCEPT !.detached = @ + 1] ELSE fetches
     ELSE UNCHANGED <<messages, error, fetches>>
  /\ lastOp' = r.branch
  /\ mover' = IF r.branch = "ignored" THEN mover ELSE cl.turn
  /\ movedFrom' = IF r.branch = "ignored" THEN movedFrom ELSE cl.players[cl.turn]
  /\ humanMoved' = (humanMoved \/ (fired = {} /\ r.branch # "ignored"))
  /\ rolls' = IF r.branch = "ignored" THEN rolls ELSE rolls + 1
  /\ UNCHANGED <<openaiApiKey, opening, resets, resetIn>>

\* The Play Turn button is rendered when !gameOver and turn === 0
\* (lines 475, 500-521); its onClick is this render's handlePlayTurn.  The
\* button is disabled while processing (line 516); a request made in that
\* state is the handler run from that render, answered by the guard of
\* line 357.
HumanRequestAnyTurn ==
  /\ ~gameOver
  /\ \E dice \in NextDice : PlayTurn(Render, dice, {})

HumanRequest ==
  /\ ~gameOver /\ turn = 0
  /\ \E dice \in NextDice : PlayTurn(Render, dice, {})

\* The automated turn: the timer of lines 430-432 runs the handlePlayTurn
\* of the render that scheduled it.
AutoTimerFires ==
  \E i \in DOMAIN timers : LET t == timers[i] IN
    /\ Due(i)
    /\ t.kind = "auto"
    /\ \E dice \in NextDice : PlayTurn(t, dice, {i})

\* Lines 372-375: setProcessing(false); setTurn(turn === 0 ? 1 : 0).
OvershootTimerFires ==
  \E i \in DOMAIN timers : LET t == timers[i] IN
    /\ Due(i)
    /\ t.kind = "overshoot"
    /\ LET b == [App EXCEPT !.processing = FALSE, !.turn = Flip(t.turn)] IN
       /\ Commit(b)
       /\ timers' = AddTimers(DropTimer(timers, i), useEffectAuto(App, b))
    /\ lastOp' = "overshootDone"
    /\ UNCHANGED <<messages, error, openaiApiKey, fetches, mover, movedFrom, resetIn, humanMoved, rolls, opening, resets>>

\* What follows the awaited aiEmoteTaunt in the narration callback
\* (lines 419-422): setProcessing(false); setTurn(prev => flip).
AfterNarrationNoFlip(a) == [a EXCEPT !.processing = FALSE]

AfterNarration(a) == [a EXCEPT !.processing = FALSE, !.turn = Flip(a.turn)]

\* Lines 402-418: the narration callback up to its await.  With no key the
\* awaited call settles at once and the callback runs to its end.
NarrateTimerFires ==
  \E i \in DOMAIN timers : LET t == timers[i] IN
    /\ Due(i)
    /\ t.kind = "narrate"
    /\ TauntChat(t.turn = 0, t.from, t.final, FALSE,
                 t.final < t.target, t.final > t.target)
    /\ LET b == IF openaiApiKey THEN App ELSE AfterNarration(App) IN
       /\ Commit(b)
       /\ timers' = AddTimers(DropTimer(timers, i), useEffectAuto(App, b))
    /\ fetches' = IF openaiApiKey
                  THEN [fetches EXCEPT !.awaited = @ + 1] ELSE fetches
    /\ lastOp' = "narrate"
    /\ UNCHANGED <<openaiApiKey, mover, movedFrom, resetIn, humanMoved, rolls, opening, resets>>

\* Lines 394-396: the victory taunt, not awaited.
WinTimerFires ==
  \E i \in DOMAIN timers : LET t == timers[i] IN
    /\ Due(i)
    /\ t.kind = "win"
    /\ TauntChat(t.turn = 0, t.from, t.final, TRUE, FALSE, FALSE)
    /\ timers' = DropTimer(timers, i)
    /\ fetches' = IF openaiApiKey
                  THEN [fetches EXCEPT !.detached = @ + 1] ELSE fetches
    /\ lastOp' = "winTaunt"
    /\ UNCHANGED <<app, openaiApiKey, mover, movedFrom, resetIn, humanMoved, rolls, opening, resets>>

\* aiAddMessage after its await (Chat.js 99-106): the reply is appended, or
\* the error is set.
FetchSettles(ok) ==
  /\ messages' = IF ok THEN AddAssistantMessage(messages) ELSE messages
  /\ error' = IF ok THEN error ELSE ResponseError

\* The request of an awaited taunt settles; the narration callback resumes.
AwaitedFetchDone ==
  /\ fetches.awaited > 0
  /\ \E ok \in BOOLEAN : FetchSettles(ok)
  /\ fetches' = [fetches EXCEPT !.awaited = @ - 1]
  /\ LET b == AfterNarration(App) IN
     /\ Commit(b)
     /\ timers' = AddTimers(timers, useEffectAuto(App, b))
  /\ lastOp' = "resume"
  /\ UNCHANGED <<openaiApiKey, mover, movedFrom, resetIn, humanMoved, rolls, opening, resets>>

\* The request of a taunt nobody awaits (overshoot, victory) settles.
DetachedFetchDone ==
  /\ fetches.detached > 0
  /\ \E ok \in BOOLEAN : FetchSettles(ok)
  /\ fetches' = [fetches EXCEPT !.detached = @ - 1]
  /\ lastOp' = "tauntDone"
  /\ UNCHANGED <<app, openaiApiKey, timers, mover, movedFrom, resetIn, humanMoved, rolls, opening, resets>>

\* resetGame (lines 333-343) with resetToWelcome (Chat.js 54-63).  It is the
\* component's PUBLIC_INTERFACE operation and has no guard of its own: it
\* may be called in any state (explored once the opening has been played).
ResetGame ==
  /\ resets < MaxResets
  /\ rolls >= Len(opening)
  /\ LET b == [App EXCEPT !.players = InitialPlayers, !.turn = 0,
                          !.gameOver = FALSE, !.diceValue = 0, !.message = ""] IN
     /\ Commit(b)
     /\ timers' = AddTimers(timers, useEffectAuto(App, b))
  /\ messages' = WelcomeMessages
  /\ error' = ""
  /\ lastOp' = "reset"
  /\ resets' = resets + 1
  /\ resetIn' = Phase
  /\ humanMoved' = FALSE
  /\ mover' = -1
  /\ movedFrom' = 0
  /\ UNCHANGED <<openaiApiKey, fetches, rolls, opening>>

\* The state after the first render of App with the given positions.
Start(ps, dice) ==
  /\ players = ps
  /\ turn = 0
  /\ gameOver = FALSE
  /\ diceValue = 0
  /\ message = ""
  /\ processing = FALSE
  /\ board = Board(ps)
  /\ messages = WelcomeMessages
  /\ error = ""
  /\ openaiApiKey \in BOOLEAN
  /\ timers = << >>
  /\ fetches = [awaited |-> 0, detached |-> 0]
  /\ lastOp = "init"
  /\ mover = -1
  /\ movedFrom = 0
  /\ resetIn = "none"
  /\ humanMoved = FALSE
  /\ rolls = 0
  /\ opening = dice
  /\ resets = 0

Init == \E dice \in Openings : Start(InitialPlayers, dice)

Play ==
  \/ HumanRequest
  \/ AutoTimerFires
  \/ OvershootTimerFires
  \/ NarrateTimerFires
  \/ WinTimerFires
  \/ AwaitedFetchDone
  \/ DetachedFetchDone

\* The application as wired: resetGame is the onClick of the Reset Game
\* button, which is rendered when gameOver (lines 475-497).
ResetButton == gameOver /\ ResetGame

Next == Play \/ ResetButton

Spec == Init /\ [][Next]_vars

\* resetGame called in any state, as an operation of the component.
NextAnyReset == Play \/ ResetGame

SpecAnyReset == Init /\ [][NextAnyReset]_vars

\* One session in which every pending timer eventually runs; nothing is
\* assumed of the commentary requests.
TimersFire ==
  /\ WF_vars(AutoTimerFires)
  /\ WF_vars(OvershootTimerFires)
  /\ WF_vars(NarrateTimerFires)
  /\ WF_vars(WinTimerFires)

SpecTimersFire == Init /\ [][Play]_vars /\ TimersFire

\* The same, and every commentary request eventually settles.
SpecAllSettle ==
  SpecTimersFire /\ WF_vars(AwaitedFetchDone) /\ WF_vars(DetachedFetchDone)

\* ------------------------------------------------ moves from any position
\* The squares a token rests on while a game runs: below END_CELL and
\* neither a snake head nor a ladder base.
StartSquares ==
  {sq \in 1..(END_CELL - 1) : resolveSnakesAndLadders(sq) = sq}

\* Positions of a running game with the human to move: the start, and the
\* human on any other resting square with the AI on 7 (1 + 6), each of which
\* some sequence of rolls from the start produces.
OpponentSquare == 7

ProbePositions ==
  {InitialPlayers} \cup
  {[i \in 0..1 |-> IF i = 0 THEN sq ELSE OpponentSquare] :
     sq \in StartSquares \ {1}}

InitAnyPosition == \E ps \in ProbePositions : Start(ps, << >>)

ProbeHumanRequest == rolls < MaxProbeRolls /\ HumanRequest

ProbeAutoTimerFires == rolls < MaxProbeRolls /\ AutoTimerFires

NextAnyPosition ==
  \/ ProbeHumanRequest
  \/ ProbeAutoTimerFires
  \/ OvershootTimerFires
  \/ NarrateTimerFires
  \/ WinTimerFires
  \/ AwaitedFetchDone
  \/ DetachedFetchDone

SpecAnyPosition == InitAnyPosition /\ [][NextAnyPosition]_vars

\* ------------------------------------------------ rolls that keep overshooting
\* The resting squares from which some roll overshoots END_CELL.
EndgameSquares == {sq \in StartSquares : sq + DiceFaces > END_CELL}

\* Both players near the end with the human to move; five rounds of rolls
\* from the start can produce each of these positions.
EndgamePositions ==
  {[i \in 0..1 |-> IF i = 0 THEN h ELSE a] : h, a \in EndgameSquares}

InitEndgame == \E ps \in EndgamePositions : Start(ps, << >>)

\* The human clicks Play Turn and the roll overshoots.
OvershootingHumanRequest ==
  /\ fetches.detached < MaxPending
  /\ HumanRequest
  /\ lastOp' = "overshoot"

\* The automated timer fires and the roll overshoots.
OvershootingAutoTimerFires ==
  /\ fetches.detached < MaxPending
  /\ AutoTimerFires
  /\ lastOp' = "overshoot"

\* rolls bounds the exploration of a game; a play that goes on starts the
\* count again.  No state of the application changes.
Recount ==
  /\ rolls >= Len(opening) + MaxRolls
  /\ rolls' = 0
  /\ UNCHANGED <<app, chat, openaiApiKey, timers, fetches, lastOp, mover,
                 movedFrom, resetIn, humanMoved, opening, resets>>

NextOvershooting ==
  \/ OvershootingHumanRequest
  \/ OvershootingAutoTimerFires
  \/ OvershootTimerFires
  \/ DetachedFetchDone
  \/ Recount

\* The play goes on: while some step is possible, a step is taken.
SpecOvershooting ==
  InitEndgame /\ [][NextOvershooting]_vars /\ WF_vars(NextOvershooting)

\* --------------------------------------------------- the Board on its own
\* Board is a public component: its players prop is any list of players.
\* One or two players may stand anywhere (or have no position); longer
\* lists are drawn on a few squares so that they crowd.
CrowdSquares == {0, 1, END_CELL}

BoardProps ==
  UNION {[0..(n - 1) -> IF n <= 2 THEN 0..END_CELL ELSE CrowdSquares] :
           n \in 1..MaxTokens}

InitBoard == \E ps \in BoardProps : Start(ps, << >>)

\* The parent re-renders the Board with one player's position changed.
BoardRerender ==
  \E i \in DOMAIN players, d \in rollDice :
    LET ps == [players EXCEPT ![i] = @ + d] IN
      /\ ps \in BoardProps
      /\ players' = ps
      /\ board' = Board(ps)
      /\ lastOp' = "render"
      /\ UNCHANGED <<turn, gameOver, diceValue, message, processing,
                     messages, error, openaiApiKey, timers, fetches, mover,
                     movedFrom, resetIn, humanMoved, rolls, opening, resets>>

NextBoard == BoardRerender

SpecBoard == InitBoard /\ [][NextBoard]_vars

\* ----------------------------------------------------------------- claims
\* The orchestrator states of the specification, read off the flags.
AwaitingHumanMove == Phase = "AwaitingHumanMove"
ResolvingMove == Phase = "ResolvingMove"
AutomatedTurnPending == Phase = "AutomatedTurnPending"
GameOver == Phase = "GameOver"

\* A step that resolves a move: a dice is rolled.
Rolled == rolls' = rolls + 1

\* C1: a move that lands exactly on END_CELL puts the game in GameOver, and
\* from GameOver no step other than resetGame rolls the dice, changes a
\* position or changes the turn.
C1_GameOverBlocksMoves ==
  [][ /\ (Rolled /\ \E i \in 0..1 : players'[i] = END_CELL /\ players[i] # END_CELL)
         => gameOver'
      /\ (gameOver /\ lastOp' # "reset")
         => (rolls' = rolls /\ players' = players /\ turn' = turn) ]_vars

C1_Witness == gameOver /\ players[mover] = END_CELL /\ lastOp = "winTaunt"

\* C2: a Play Turn request made while the busy flag is set changes no field
\* of the game session and emits no commentary (transcript, error line,
\* requests and timers are as before).
C2_BusyRequestIgnored ==
  [][ (HumanRequest /\ processing)
      => UNCHANGED <<players, turn, gameOver, diceValue, message, processing,
                     messages, error, fetches, timers, rolls>> ]_vars

C2_Witness == lastOp = "ignored" /\ processing /\ rolls > 0

\* C3: while the busy flag is set no step other than resetGame rolls the
\* dice or commits a position.
C3_OneMoveInFlight ==
  [][ (processing /\ lastOp' # "reset")
      => (rolls' = rolls /\ players' = players) ]_vars

C3_Witness == processing /\ lastOp = "move" /\ mover = 1 /\ turn = 1

\* C4: after a resetGame called in AutomatedTurnPending, and until the
\* human requests a move, both positions are 1 and the last dice value is
\* cleared.
C4_ResetCancelsAutoTimer ==
  (resetIn = "AutomatedTurnPending" /\ ~humanMoved)
    => (players = InitialPlayers /\ diceValue = 0)

\* C5: resetGame leaves both players on square 1, the turn on the human,
\* the terminal flag, the dice value and the winner message cleared and no
\* move in flight; a second call in a row changes nothing of that.
C5_ResetReinitialises ==
  [][ lastOp' = "reset"
      => /\ players' = InitialPlayers /\ turn' = 0 /\ ~gameOver'
         /\ diceValue' = 0 /\ message' = "" /\ ~processing'
         /\ (lastOp = "reset" => UNCHANGED <<app, messages, error>>) ]_vars

\* C6: after a resetGame called while a move was in flight, and until the
\* human has made a move in the new session, the turn stays on the human.
C6_ResetCancelsPacingTimer ==
  (resetIn = "ResolvingMove" /\ ~humanMoved) => turn = 0

\* C7: in a session the human resolves the first move and no player
\* resolves two moves in a row; the turn changes only when a move that did
\* not win completes, from the mover to the other player, and every such
\* completion (an overshoot's included) changes it.
C7_TurnsAlternate ==
  [][ /\ Rolled => (mover' = turn /\ mover' # mover /\ (mover = -1 => mover' = 0))
      /\ (turn' # turn /\ lastOp' # "reset")
         => (processing /\ ~processing' /\ ~gameOver /\ turn = mover)
      /\ (processing /\ ~processing') => turn' = Flip(turn) ]_vars

C7_Witness == lastOp = "overshootDone" /\ mover = 0 /\ turn = 1 /\ rolls >= 3

\* C8: from AutomatedTurnPending (with a roll left to explore) the game
\* reaches GameOver or AwaitingHumanMove.
RollLeft == rolls < Len(opening) + MaxRolls

C8_AutomatedTurnCompletes ==
  (AutomatedTurnPending /\ RollLeft) ~> (GameOver \/ AwaitingHumanMove)

\* C9: the narration callback of a move that did not win clears the busy
\* flag and switches the turn when it runs, whether or not the commentary
\* request it started has settled.
C9_CommentaryNotAwaited ==
  [][ lastOp' = "narrate" => (~processing' /\ turn' = Flip(turn)) ]_vars

\* C10: a move is an overshoot exactly when the mover's position plus the
\* roll exceeds END_CELL; the overshoot leaves positions, terminal flag and
\* turn as they are and records the roll; when its timer runs the turn goes
\* to the other player and the busy flag is cleared.
C10_OvershootForfeits ==
  [][ /\ Rolled => ((movedFrom' + diceValue' > END_CELL) <=> lastOp' = "overshoot")
      /\ lastOp' = "overshoot"
         => /\ players' = players /\ gameOver' = gameOver /\ message' = message
            /\ turn' = turn /\ processing' /\ diceValue' \in rollDice
      /\ lastOp' = "overshootDone"
         => /\ players' = players /\ gameOver' = gameOver
            /\ turn' = Flip(mover) /\ ~processing' ]_vars

C10_Witness ==
  lastOp = "overshootDone" /\ players[0] = 95 /\ diceValue = 6 /\ turn = 1

\* C11: a move whose target (position plus roll) is at most END_CELL and is
\* neither a snake head nor a ladder base puts the mover on the target and
\* leaves the other player where it was.
SnakeHeads == {SNAKES[i].head : i \in DOMAIN SNAKES}

LadderBases == {LADDERS[i].base : i \in DOMAIN LADDERS}

Target == movedFrom + diceValue

C11_PlainMoveCommitsTarget ==
  [][ (Rolled /\ Target' <= END_CELL /\ Target' \notin SnakeHeads \cup LadderBases)
      => /\ players'[mover'] = Target'
         /\ players'[1 - mover'] = players[1 - mover'] ]_vars

C11_Witness ==
  lastOp = "move" /\ mover = 0 /\ movedFrom = 50 /\ diceValue = 4 /\ players[0] = 54

\* C12: resolveSnakesAndLadders maps every snake head to that snake's tail,
\* every ladder base to that ladder's top and every other square of
\* 1..END_CELL to itself, and a move with target at most END_CELL puts
\* the mover on the square its target maps to.
Topology(sq) ==
  IF sq \in SnakeHeads
    THEN (CHOOSE sn \in {SNAKES[i] : i \in DOMAIN SNAKES} : sn.head = sq).tail
  ELSE IF sq \in LadderBases
    THEN (CHOOSE ld \in {LADDERS[i] : i \in DOMAIN LADDERS} : ld.base = sq).top
  ELSE sq

C12_ResolveFollowsTable ==
  [][ /\ \A sq \in 1..END_CELL : resolveSnakesAndLadders(sq) = Topology(sq)
      /\ (Rolled /\ Target' <= END_CELL) => players'[mover'] = Topology(Target') ]_vars

C12_Witness ==
  lastOp = "move" /\ mover = 0 /\ movedFrom = 93 /\ diceValue = 6 /\ players[0] = 7

\* C13: a move that puts the mover on END_CELL sets gameOver and the
\* winner message of the mover, leaves the turn on the mover and schedules
\* the victory commentary of the mover; when that callback runs the chat
\* receives the mover's win event; and while gameOver holds nothing but
\* resetGame changes the turn.
C13_WinEntersGameOver ==
  [][ /\ (Rolled /\ players'[mover'] = END_CELL)
         => /\ gameOver'
            /\ message' = (IF mover' = 0 THEN "You win!" ELSE "AI wins!")
            /\ turn' = turn /\ turn' = mover'
            /\ \E i \in DOMAIN timers' :
                 timers'[i].kind = "win" /\ timers'[i].turn = mover'
      /\ lastOp' = "winTaunt"
         => \E i \in DOMAIN timers :
              /\ timers[i].kind = "win"
              /\ timers' = DropTimer(timers, i)
              /\ messages'.role = "user"
              /\ messages'.text = (IF timers[i].turn = 0
                                     THEN "Player won the game!"
                                     ELSE "AI won the game!")
      /\ (gameOver /\ lastOp' # "reset") => turn' = turn ]_vars

C13_Witness ==
  /\ gameOver /\ lastOp = "winTaunt" /\ mover = 1 /\ turn = 1
  /\ movedFrom + diceValue = 80 /\ players[1] = END_CELL
  /\ message = "AI wins!" /\ messages.text = "AI won the game!"

\* The event texts aiEmoteTaunt sends for a win and for any other outcome.
WinTexts == {"AI won the game!", "Player won the game!"}

MoveTexts == {"went down a snake", "climbed a ladder", "moved"}

\* The steps of a turn that C14 orders: the roll commits the position
\* without touching the chat or the turn; an overshoot notifies the chat at
\* the roll; the narration callback notifies the chat of a committed move;
\* the turn changes only in the narration callback, in its resumption or in
\* the overshoot callback, each at or after the notification.
CommitThenNotifyThenSwitch ==
  /\ lastOp' \in {"move", "win"}
     => /\ players'[mover'] = resolveSnakesAndLadders(Target')
        /\ messages' = messages /\ turn' = turn
  /\ lastOp' = "overshoot"
     => messages'.text = "could not move" /\ turn' = turn
  /\ lastOp' = "narrate"
     => /\ messages'.role = "user" /\ messages'.text \in MoveTexts
        /\ players' = players
  /\ lastOp' = "resume" => fetches.awaited > 0
  /\ (turn' # turn /\ lastOp' # "reset")
     => lastOp' \in {"narrate", "resume", "overshootDone"}

\* C14 as stated: the order above, and GameOver is entered only once the
\* win commentary has been notified.
C14_NotifyBeforeAdvance ==
  [][ /\ CommitThenNotifyThenSwitch
      /\ (~gameOver /\ gameOver') => messages'.text \in WinTexts ]_vars

\* C14 amended: the order above for a move that does not win; a winning move
\* enters GameOver in the commit of the position, and its commentary is
\* notified afterwards, by the victory callback.
C14_OrderOfATurn ==
  [][ /\ CommitThenNotifyThenSwitch
      /\ (~gameOver /\ gameOver') => (lastOp' = "win" /\ messages' = messages)
      /\ lastOp' = "winTaunt" => messages'.text \in WinTexts ]_vars

C14_Witness ==
  /\ gameOver /\ lastOp = "win" /\ players[mover] = END_CELL
  /\ messages.text \notin WinTexts
  /\ \E i \in DOMAIN timers : timers[i].kind = "win"

\* The two ways a commentary request ends, as the chat shows them.
ReplyAppended == messages'.role = "assistant" /\ error' = error

FailureShown == messages' = messages /\ error' # "" /\ error' = ResponseError

\* The session after the narration of a move, whatever the commentary did.
TurnPassed ==
  /\ ~processing' /\ turn' = Flip(turn)
  /\ players' = players /\ gameOver' = gameOver

\* C15: without the credential every commentary call shows an error and
\* appends no assistant message, and the narration callback still clears
\* the busy flag and passes the turn; a request that settles either appends
\* the reply or shows an error with the transcript unchanged, and the
\* session fields after it are the same in both cases.
C15_CommentaryFailureIsHarmless ==
  [][ /\ (lastOp' \in {"narrate", "overshoot", "winTaunt"} /\ ~openaiApiKey)
         => error' # "" /\ messages'.role = "user"
      /\ (lastOp' = "narrate" /\ ~openaiApiKey) => TurnPassed
      /\ lastOp' = "resume" => (ReplyAppended \/ FailureShown) /\ TurnPassed
      /\ lastOp' = "tauntDone"
         => (ReplyAppended \/ FailureShown) /\ UNCHANGED app ]_vars

C15_Witness ==
  /\ lastOp = "resume" /\ error = ResponseError /\ messages.role = "user"
  /\ ~processing /\ turn = 1 /\ mover = 0 /\ ~gameOver

\* C16: squareToGridPos sends the squares 1..END_CELL one-to-one onto the
\* BOARD_SIZE x BOARD_SIZE cells: every token is drawn in a cell of the
\* grid, tokens on different squares are in different cells, every cell is
\* the cell of some square, square 1 is at row 9, col 0 and square END_CELL
\* at row 0, col 0.
GridIndex == 0..(BOARD_SIZE - 1)

GridCells == {squareToGridPos(sq) : sq \in 1..END_CELL}

C16_GridIsBijection ==
  /\ \A k \in DOMAIN board :
       /\ board[k].row \in GridIndex /\ board[k].col \in GridIndex
       /\ <<board[k].row, board[k].col>> = squareToGridPos(board[k].square)
       /\ board[k].square = 1 => (board[k].row = 9 /\ board[k].col = 0)
       /\ board[k].square = END_CELL => (board[k].row = 0 /\ board[k].col = 0)
  /\ \A k, l \in DOMAIN board :
       board[k].square # board[l].square
       => <<board[k].row, board[k].col>> # <<board[l].row, board[l].col>>
  /\ GridCells = GridIndex \X GridIndex

C16_Witness ==
  /\ lastOp = "render" /\ Len(board) = 2
  /\ board[1].square = 1 /\ board[1].row = 9 /\ board[1].col = 0
  /\ board[2].square = END_CELL /\ board[2].row = 0 /\ board[2].col = 0

\* C17: the game's table has 9 snakes and 8 ladders; all their ends are in
\* 1..END_CELL; every snake goes down and every ladder up; the 34 ends are
\* pairwise distinct, so no square is both a head and a base and no tail or
\* top is a head or a base; hence no player rests on a head or a base.
SnakeTails == {SNAKES[i].tail : i \in DOMAIN SNAKES}

LadderTops == {LADDERS[i].top : i \in DOMAIN LADDERS}

C17_TopologyInvariants ==
  /\ Len(SNAKES) = 9 /\ Len(LADDERS) = 8
  /\ \A i \in DOMAIN SNAKES :
       /\ SNAKES[i].head \in 1..END_CELL /\ SNAKES[i].tail \in 1..END_CELL
       /\ SNAKES[i].head > SNAKES[i].tail
  /\ \A i \in DOMAIN LADDERS :
       /\ LADDERS[i].base \in 1..END_CELL /\ LADDERS[i].top \in 1..END_CELL
       /\ LADDERS[i].top > LADDERS[i].base
  /\ Cardinality(SnakeHeads \cup SnakeTails \cup LadderBases \cup LadderTops)
       = 2 * Len(SNAKES) + 2 * Len(LADDERS)
  /\ SnakeHeads \cap LadderBases = {}
  /\ (SnakeTails \cup LadderTops) \cap (SnakeHeads \cup LadderBases) = {}
  /\ \A i \in DOMAIN players : players[i] \notin SnakeHeads \cup LadderBases

C17_Witness ==
  /\ lastOp = "move" /\ mover = 0 /\ movedFrom = 15 /\ diceValue = 5
  /\ players[0] = 77 /\ Target \in LadderBases

\* C19: the directive sent with a commentary event is the gloating one when
\* the AI moved and the taunting one when the human moved, and the
\* directive sent with a win event is neither of the two.
C19_ToneDirective ==
  [][ /\ lastOp' = "overshoot"
         => messages'.tone = (IF mover' = 1 THEN "gloat" ELSE "taunt")
      /\ lastOp' = "narrate"
         => messages'.tone = (IF mover = 1 THEN "gloat" ELSE "taunt")
      /\ lastOp' = "winTaunt" => messages'.tone \notin {"gloat", "taunt"} ]_vars

\* C20: the tokens of one square carry the indices 0..N-1 in player-list
\* order, each once, and N as totalHere; twice the offset of index i is
\* TokenSpacing * (2i - (N-1)), so the offsets of a square are pairwise
\* distinct, mirror each other (i and N-1-i), add up to zero and are zero
\* for a lone token; a player with a position has exactly one token and a
\* player without one has none.
RECURSIVE SumAdjust2(_)
SumAdjust2(ks) ==
  IF ks = {} THEN 0
  ELSE LET k == CHOOSE x \in ks : TRUE
       IN  board[k].overlayAdjust2 + SumAdjust2(ks \ {k})

TokensOn(sq) == {k \in DOMAIN board : board[k].square = sq}

C20_TokenOffsets ==
  /\ \A k \in DOMAIN board :
       LET here == TokensOn(board[k].square)
           n == Cardinality(here)
       IN  /\ board[k].totalHere = n
           /\ {board[l].tokenIdx : l \in here} = 0..(n - 1)
           /\ board[k].overlayAdjust2
                = TokenSpacing * (2 * board[k].tokenIdx - (n - 1))
           /\ n = 1 => board[k].overlayAdjust2 = 0
           /\ SumAdjust2(here) = 0
           /\ \A l \in here :
                /\ l # k => board[l].overlayAdjust2 # board[k].overlayAdjust2
                /\ board[l].tokenIdx = n - 1 - board[k].tokenIdx
                   => board[l].overlayAdjust2 = - board[k].overlayAdjust2
                /\ board[k].player < board[l].player
                   <=> board[k].tokenIdx < board[l].tokenIdx
  /\ \A i \in DOMAIN players :
       Cardinality({k \in DOMAIN board : board[k].player = i})
         = (IF players[i] # 0 THEN 1 ELSE 0)

C20_Witness ==
  /\ lastOp = "render" /\ DOMAIN players = 0..3 /\ players[0] = 0
  /\ Len(board) = 3 /\ \A k \in 1..3 : board[k].square = 1
  /\ board[1].overlayAdjust2 = -6 /\ board[2].overlayAdjust2 = 0
  /\ board[3].overlayAdjust2 = 6

\* The automated triggers (timers of lines 430-432) that are pending.
NumAuto(seq) == Cardinality({i \in DOMAIN seq : seq[i].kind = "auto"})

\* C21: a roll made on the AI's turn moves the AI and consumes a pending
\* automated trigger; a roll made on the human's turn moves the human, is
\* made in AwaitingHumanMove and consumes no trigger; and exactly one
\* trigger is pending in AutomatedTurnPending, none in any other state.
C21_AutomatedMovesComeFromTrigger ==
  [][ /\ (Rolled /\ turn = 1)
         => (mover' = 1 /\ NumAuto(timers') = NumAuto(timers) - 1)
      /\ (Rolled /\ turn = 0)
         => (mover' = 0 /\ AwaitingHumanMove /\ NumAuto(timers') = NumAuto(timers))
      /\ NumAuto(timers) = (IF AutomatedTurnPending THEN 1 ELSE 0) ]_vars

C21_Witness ==
  /\ lastOp = "move" /\ mover = 1 /\ processing /\ NumAuto(timers) = 0
  /\ humanMoved /\ rolls = 2

\* C22: every token is drawn in the cell that shows its square's number,
\* every snake and ladder end is drawn in the cell that shows its number,
\* and in general the number shown in cell (row, col) is the square that
\* squareToGridPos sends to (row, col).
C22_LabelsMatchMapper ==
  /\ \A k \in DOMAIN board :
       CellLabel(board[k].row, board[k].col) = board[k].square
  /\ \A sq \in SnakeHeads \cup SnakeTails \cup LadderBases \cup LadderTops :
       CellLabel(squareToGridPos(sq)[1], squareToGridPos(sq)[2]) = sq
  /\ \A row \in GridIndex, col \in GridIndex :
       squareToGridPos(CellLabel(row, col)) = <<row, col>>

\* C23: resolveSnakesAndLadders is idempotent on 1..END_CELL, and the
\* square a move commits is a fixed point of it: no head and no base.
C23_ResolutionDoesNotChain ==
  [][ /\ \A sq \in 1..END_CELL :
           resolveSnakesAndLadders(resolveSnakesAndLadders(sq))
             = resolveSnakesAndLadders(sq)
      /\ (Rolled /\ Target' <= END_CELL)
         => /\ players'[mover'] = resolveSnakesAndLadders(Target')
            /\ resolveSnakesAndLadders(players'[mover']) = players'[mover']
            /\ players'[mover'] \notin SnakeHeads \cup LadderBases ]_vars

C23_Witness ==
  /\ lastOp = "move" /\ mover = 0 /\ movedFrom = 3 /\ diceValue = 5
  /\ players[0] = 34 /\ Target \in LadderBases

\* C24: the event of a move that did not win is described by comparing the
\* square landed on with the target: below it a snake descent, above it a
\* ladder climb, equal a plain move; that is a descent exactly when the
\* target is a snake head and a climb exactly when it is a ladder base; and
\* an overshoot is described as 'could not move'.
Landed == players[mover]

C24_OutcomeFlags ==
  [][ /\ lastOp' = "narrate"
         => /\ messages'.text =
                 (IF Landed < Target THEN "went down a snake"
                  ELSE IF Landed > Target THEN "climbed a ladder"
                  ELSE "moved")
            /\ messages'.text = "went down a snake" <=> Target \in SnakeHeads
            /\ messages'.text = "climbed a ladder" <=> Target \in LadderBases
      /\ lastOp' = "overshoot"
         => messages'.text = "could not move" /\ players' = players ]_vars

C24_Witness ==
  /\ lastOp = "narrate" /\ mover = 0 /\ movedFrom = 93 /\ diceValue = 6
  /\ players[0] = 7 /\ messages.text = "went down a snake"

\* C25: in every reachable state each player stands on a square of
\* 1..END_CELL that is neither a snake head nor a ladder base.
C25_PositionsAreRestingSquares ==
  \A i \in DOMAIN players :
    /\ players[i] \in 1..END_CELL
    /\ players[i] \notin SnakeHeads \cup LadderBases

C25_Witness ==
  /\ lastOp = "move" /\ mover = 0 /\ Target = 92 /\ players[0] = 35
  /\ players[1] = 79

\* C26: gameOver is set exactly when some player stands on END_CELL, at most
\* one player stands there, and while it is set the winner message names
\* that player.
OnEnd == {i \in DOMAIN players : players[i] = END_CELL}

C26_TerminalFlagMatchesPositions ==
  /\ gameOver <=> OnEnd # {}
  /\ Cardinality(OnEnd) <= 1
  /\ gameOver => \A i \in OnEnd : message = WinnerMessage(i = 0)

C26_Witness ==
  /\ gameOver /\ OnEnd = {1} /\ message = "AI wins!" /\ players[0] # 1

\* C27: a resolved move changes the position of the player whose turn it is
\* and of nobody else, the list keeps its two slots, and positions change
\* only by a move or by resetGame.
C27_MoveChangesOnlyActivePlayer ==
  [][ /\ Rolled
         => /\ mover' = turn
            /\ DOMAIN players' = DOMAIN players
            /\ \A i \in DOMAIN players \ {turn} : players'[i] = players[i]
      /\ players' # players
         => \/ Rolled /\ players'[turn] # players[turn]
            \/ lastOp' = "reset" ]_vars

C27_Witness ==
  /\ lastOp = "move" /\ mover = 1 /\ players[0] = 35 /\ players[1] # 79
  /\ movedFrom = 79

\* C28: from resetGame until the next move the transcript holds only the
\* welcome message: no commentary scheduled before the reset is delivered
\* into it.
C28_ResetTranscriptStaysClean ==
  (resetIn # "none" /\ mover = -1) => messages = WelcomeMessages

\* C29: in a play whose rolls keep overshooting nobody moves, GameOver is
\* never reached, and the play never stops: again and again the human is
\* awaited and again and again the automated turn is pending, each overshoot
\* handing the turn to the other player.
EndgameStart == \E ps \in EndgamePositions : players = ps

C29_OvershootingPlayNeverEnds ==
  /\ [](~gameOver /\ EndgameStart)
  /\ [][players' = players]_vars
  /\ [][(processing /\ ~processing') => turn' = Flip(turn)]_vars
  /\ []<>AwaitingHumanMove
  /\ []<>AutomatedTurnPending

C29_Witness ==
  /\ lastOp = "overshootDone" /\ mover = 1 /\ AwaitingHumanMove
  /\ players[0] = 95 /\ players[1] = 98 /\ diceValue = 3

\* C30: the renderer's tables hold exactly the pairs of the game's tables,
\* entry by entry, and the token board's copy of squareToGridPos agrees with
\* the renderer's on every square, so each token is drawn in the cell the
\* renderer's mapper gives its square.
SnakePairs(tbl) == {<<tbl[i].head, tbl[i].tail>> : i \in DOMAIN tbl}
LadderPairs(tbl) == {<<tbl[i].base, tbl[i].top>> : i \in DOMAIN tbl}

C30_CopiesAgree ==
  /\ SnakePairs(BoardSNAKES) = SnakePairs(SNAKES)
  /\ LadderPairs(BoardLADDERS) = LadderPairs(LADDERS)
  /\ Len(BoardSNAKES) = Len(SNAKES) /\ Len(BoardLADDERS) = Len(LADDERS)
  /\ \A sq \in 1..END_CELL : squareToGridPosTokens(sq) = squareToGridPos(sq)
  /\ \A k \in DOMAIN board :
       <<board[k].row, board[k].col>> = squareToGridPos(board[k].square)

C30_Witness ==
  /\ lastOp = "render" /\ Len(board) = 2
  /\ board[1].square = BoardLADDERS[1].base - 1
  /\ board[2].square = BoardLADDERS[7].top
  /\ <<board[2].row, board[2].col>> = <<0, 0>>

====
